---- MODULE Spec2Model ----
(***************************************************************************)
(* Model of the web-navigation agent of care_navigator:                    *)
(*   src/src/services/WebAgentService.ts  (WebAgentService)                *)
(*   src/src/app/api/search/route.ts      (the caller: init, executeSearch)*)
(* One search is one WebAgentService instance: init(), then                *)
(* executeSearch().  Every await of the code is one step of the model; the *)
(* outcome of an external call (browser session, language model, progress  *)
(* sink) is chosen nondeterministically.                                   *)
(***************************************************************************)
EXTENDS Integers, Sequences, FiniteSets, TLC

(* ------------------------------ bounds --------------------------------- *)
\* the loop of executeSearch has no ceiling; the model stops observing after
\* this many iterations
MaxIterations == 3
\* at most this many onAction calls are rejected in one search
MaxSinkFailures == 1
\* at most this many act attempts lose the race against the timer
MaxTimeouts == 1
MaxEvents == 2

(* ------------------------- program constants --------------------------- *)
maxRetries == 3
actionTimeout == 10000
maxConsecutiveErrors == 3
BackoffBase == 1000
VisibilityDelay == 1000

(* ------------------------------ strings -------------------------------- *)
UpperChars == "ABCDEFGHIJKLMNOPQRSTUVWXYZ"
LowerChars == "abcdefghijklmnopqrstuvwxyz"

\* the lower-case letter of every upper-case ASCII letter
LowerOf ==
  [c \in {SubSeq(UpperChars, k, k) : k \in 1..Len(UpperChars)} |->
     LET k == CHOOSE k \in 1..Len(UpperChars) : SubSeq(UpperChars, k, k) = c
     IN  SubSeq(LowerChars, k, k)]

\* String.prototype.toLowerCase on one character (ASCII letters)
ToLowerChar(c) == IF c \in DOMAIN LowerOf THEN LowerOf[c] ELSE c

RECURSIVE toLowerCase(_)
toLowerCase(s) ==
  IF Len(s) = 0 THEN ""
  ELSE ToLowerChar(SubSeq(s, 1, 1)) \o toLowerCase(SubSeq(s, 2, Len(s)))

\* String.prototype.includes
includes(s, sub) ==
  \E k \in 1..(Len(s) - Len(sub) + 1) : SubSeq(s, k, k + Len(sub) - 1) = sub

\* String.prototype.startsWith
startsWith(s, pre) == Len(s) >= Len(pre) /\ SubSeq(s, 1, Len(pre)) = pre

(* --------------------------- action planner data ----------------------- *)
\* ActionSchema.tool: z.enum([...])
Tools == {"GOTO", "ACT", "EXTRACT", "OBSERVE", "CLOSE", "WAIT", "NAVBACK"}

\* objects the language model can answer with (the oracle is external: a
\* bounded sample of answers, one of them outside the tool enumeration)
LLMResponses ==
  { [tool |-> "ACT",     instruction |-> "click Search"],
    [tool |-> "CLOSE",   instruction |-> "session complete"],
    [tool |-> "EXTRACT", instruction |-> "Search FINISHED"],
    [tool |-> "CLICK",   instruction |-> "press the button"] }

\* ActionSchema validation inside generateObject
ActionSchema(r) == r.tool \in Tools

\* `${result.object.tool}: ${result.object.instruction}`
FormatAction(r) == r.tool \o ": " \o r.instruction

\* the check without toLowerCase()
IsCompletionMarker_CaseSensitive(a) ==
  includes(a, "complete") \/ includes(a, "finished")

\* nextAction.toLowerCase().includes('complete') || ...includes('finished')
IsCompletionMarker(a) ==
  LET lower == toLowerCase(a)
  IN  includes(lower, "complete") \/ includes(lower, "finished")

\* the strings getNextAction can return, and the completion check on each
PlannedActions == {FormatAction(r) : r \in {q \in LLMResponses : ActionSchema(q)}}
CompletionCheck == [a \in PlannedActions |-> IsCompletionMarker(a)]

(* --------------------------- result extractor data --------------------- *)
RequiredKeys == {"name", "specialty", "address"}
ProviderKeys == RequiredKeys \cup {"phone"}

\* the schema with name: z.string().optional()
ProviderSchema_NameOptional(p) == {"specialty", "address"} \subseteq DOMAIN p

\* ProviderSchema: name, specialty, address required, phone optional
ProviderSchema(p) == RequiredKeys \subseteq DOMAIN p

\* SearchResultsSchema accepts d
SearchResultsSchema(d) ==
  /\ "providers" \in DOMAIN d
  /\ \A k \in 1..Len(d.providers) : ProviderSchema(d.providers[k])

\* returning results instead of SearchResultsSchema.parse(results)
Parse_Unstripped(d) == d

\* SearchResultsSchema.parse(d) on accepted data: z.object strips unknown keys
Parse(d) ==
  [providers |->
     [k \in 1..Len(d.providers) |->
        [f \in (DOMAIN d.providers[k]) \cap ProviderKeys |-> d.providers[k][f]]]]

\* data page.extract can resolve with (bounded sample)
ExtractedData ==
  { [providers |-> <<>>],
    [providers |-> << [name |-> "Dr A", specialty |-> "Cardiologist",
                       address |-> "1 Main St", phone |-> "555"] >>],
    [providers |-> << [name |-> "Dr A", specialty |-> "Cardiologist",
                       address |-> "1 Main St"],
                      [name |-> "Dr B", specialty |-> "Internal Medicine",
                       address |-> "2 Oak Ave", rating |-> "5"] >>],
    [providers |-> << [specialty |-> "Cardiologist", address |-> "1 Main St"] >>],
    [items |-> <<>>] }

NoResult == [none |-> "none"]

(* ------------------------------ errors --------------------------------- *)
NoError == ""
InitError == "Failed to initialize web agent"
TooManyErrors == "Too many consecutive errors"
ActionTimeoutError == "Action timeout"
PlanLabel == "Failed to get next action from LLM"
ActLabel(a) == "Failed to execute action: " \o a
\* messages of errors raised by the collaborators
GotoError == "goto failed"
ObserveError == "observe failed"
LLMError == "model call failed"
NoObjectError == "response did not match schema"
SinkError == "stream write failed"
ActError == "act failed"
ScreenshotError == "screenshot failed"
ExtractError == "extract failed"
ZodError == "invalid search results"
CloseError == "close failed"

\* `${errorMessage}: ${lastError?.message}`
CompositeError(errorMessage, last) == errorMessage \o ": " \o last

(* ------------------------------- state --------------------------------- *)
VARIABLES
  pc,                \* the await the search is suspended at
  i,                 \* retryOperation: loop index i (0 outside retryOperation)
  lastError,         \* retryOperation: lastError?.message ("undefined": null)
  consecutiveErrors, \* executeSearch: consecutiveErrors
  actionHistory,     \* this.actionHistory
  action,            \* getNextAction: action of the running attempt ("": none)
  nextAction,        \* executeSearch: nextAction of the current iteration
  pendingActs,       \* page.act calls that have not settled yet
  timer,             \* ms of the timer the search awaits (0: none)
  caught,            \* the error bound in the loop's catch block
  results,           \* executeSearch: results (what page.extract resolved with)
  error,             \* the error init or executeSearch throws (NoError: none)
  outcome,           \* what the caller got: "pending", "returned", "threw"
  searchResults,     \* route.ts: searchResults (value executeSearch returned)
  calls,             \* number of invocations so far, per call name
  sinkFailures,      \* number of rejected onAction calls
  timeouts,          \* number of act attempts that timed out
  sinkLog,           \* the strings config.onAction has been invoked with
  actArg,            \* the action the latest page.act call was given ("": none)
  fault,             \* TRUE once any collaborator call failed or timed out
  otherFault,        \* TRUE once a call other than a page.act attempt failed
  actResolved,       \* TRUE once a page.act attempt resolved before its timer
  route,             \* route.ts: the await the streaming task is suspended at
  stream,            \* the events writer.write has resolved for, in order
  writeFault,        \* TRUE once a writer.write or writer.close call rejected
  cpc,               \* client: the await handleSearch is suspended at
  response,          \* client: the response fetch resolved with
  delivered,         \* client: frames of the body whose bytes have all arrived
  buffered,          \* client: TRUE when buffer holds an unterminated chunk
  actions,           \* client state: actions
  uiError,           \* client state: error ("null": none)
  isLoading,         \* client state: isLoading
  specialistType     \* client state: specialistType

vars == <<pc, i, lastError, consecutiveErrors, actionHistory, action, nextAction,
          pendingActs, timer, caught, results, error, outcome,
          searchResults, calls, sinkFailures, timeouts, sinkLog, actArg,
          fault, otherFault, actResolved, route, stream, writeFault,
          cpc, response, delivered, buffered, actions, uiError, isLoading,
          specialistType>>

\* groups of variables for UNCHANGED
retryVars == <<i, lastError>>
loopVars == <<consecutiveErrors, caught>>
planVars == <<actionHistory, action, nextAction>>
endVars == <<results, outcome, searchResults>>
boundVars == <<sinkFailures, timeouts>>
logVars == <<sinkLog, actArg>>
scriptVars == <<otherFault, actResolved>>
routeVars == <<route, stream, writeFault>>
clientVars == <<cpc, response, delivered, buffered, actions, uiError,
                isLoading, specialistType>>
serverVars == <<pc, i, lastError, consecutiveErrors, actionHistory, action,
                nextAction, pendingActs, timer, caught, results, error,
                outcome, searchResults, calls, sinkFailures, timeouts,
                sinkLog, actArg, fault, otherFault, actResolved, route,
                stream, writeFault>>
NoResponse == [status |-> 0, wire |-> <<>>]

CallNames == {"init", "goto", "observe", "plan", "planReturned", "exec",
              "act", "extract", "close"}

\* calls with the counters in S raised by one
Inc(c, S) == [n \in CallNames |-> IF n \in S THEN c[n] + 1 ELSE c[n]]

\* the loop with i <= this.maxRetries
MoreAttempts_Inclusive(k) == k <= maxRetries

\* for (let i = 0; i < this.maxRetries; i++)
MoreAttempts(k) == k < maxRetries

\* 1000 * (i + 1)
Backoff(k) == BackoffBase * (k + 1)

\* the abort test with > instead of >=
ShouldAbort_OffByOne(n) == n > maxConsecutiveErrors

\* if (consecutiveErrors >= maxConsecutiveErrors)
ShouldAbort(n) == n >= maxConsecutiveErrors

Init ==
  /\ pc = "idle"
  /\ i = 0
  /\ lastError = "undefined"
  /\ consecutiveErrors = 0
  /\ actionHistory = <<>>
  /\ action = ""
  /\ nextAction = ""
  /\ pendingActs = 0
  /\ timer = 0
  /\ caught = NoError
  /\ results = NoResult
  /\ error = NoError
  /\ outcome = "pending"
  /\ searchResults = NoResult
  /\ calls = [n \in CallNames |-> 0]
  /\ sinkFailures = 0
  /\ timeouts = 0
  /\ sinkLog = <<>>
  /\ actArg = ""
  /\ fault = FALSE
  /\ otherFault = FALSE
  /\ actResolved = FALSE
  /\ route = "start_write"
  /\ stream = <<>>
  /\ writeFault = FALSE
  /\ cpc = "idle"
  /\ response = NoResponse
  /\ delivered = 0
  /\ buffered = FALSE
  /\ actions = <<>>
  /\ uiError = "null"
  /\ isLoading = FALSE
  /\ specialistType = ""

(* --------- fragments shared by the steps of executeSearch -------------- *)
\* an error leaves the outer try: catch rethrows it, finally invokes close()
\* (S: the calls this step has already counted)
Throw(msg, S) ==
  /\ pc' = "close"
  /\ error' = msg
  /\ calls' = Inc(calls, S \cup {"close"})

\* the catch of the loop body leaves the loop with break instead of throw
\* when the error budget is used up: page.extract is invoked
LoopCatch_Break(msg, S) ==
  /\ consecutiveErrors' = consecutiveErrors + 1
  /\ caught' = msg
  /\ error' = error
  /\ IF ShouldAbort(consecutiveErrors + 1)
       THEN /\ pc' = "extract"
            /\ calls' = Inc(calls, S \cup {"extract"})
       ELSE /\ pc' = "screenshot"
            /\ calls' = Inc(calls, S)

\* the catch of the loop body: count the error, then abort or invoke
\* page.screenshot
LoopCatch(msg, S) ==
  /\ consecutiveErrors' = consecutiveErrors + 1
  /\ caught' = msg
  /\ IF ShouldAbort(consecutiveErrors + 1)
       THEN Throw(TooManyErrors, S)
       ELSE /\ pc' = "screenshot"
            /\ error' = error
            /\ calls' = Inc(calls, S)

\* the next loop iteration begins: page.observe is invoked
StartObserve ==
  /\ pc' = "observe"
  /\ calls' = Inc(calls, {"observe"})

\* one attempt of executeAction begins: page.act({ action: a }) is invoked and
\* raced against a timer of actionTimeout ms (S: the calls this step has
\* already counted)
StartAct(a, S) ==
  /\ pc' = "act_race"
  /\ actArg' = a
  /\ pendingActs' = pendingActs + 1
  /\ timer' = actionTimeout
  /\ calls' = Inc(calls, S \cup {"act"})

(* ------------------------------ route.ts ------------------------------- *)
\* await webAgent.init(): stagehand.init() is invoked
StartInit ==
  /\ pc = "idle"
  /\ route = "searching"
  /\ pc' = "init"
  /\ calls' = Inc(calls, {"init"})
  /\ UNCHANGED <<retryVars, loopVars, planVars, endVars, boundVars,
                 pendingActs, timer, error, fault>>
  /\ UNCHANGED logVars
  /\ UNCHANGED scriptVars
  /\ UNCHANGED routeVars
  /\ UNCHANGED clientVars

\* stagehand.init() resolved; executeSearch() starts and invokes page.goto
InitOk ==
  /\ pc = "init"
  /\ pc' = "goto"
  /\ calls' = Inc(calls, {"goto"})
  /\ UNCHANGED <<retryVars, loopVars, planVars, endVars, boundVars,
                 pendingActs, timer, error, fault>>
  /\ UNCHANGED logVars
  /\ UNCHANGED scriptVars
  /\ UNCHANGED routeVars
  /\ UNCHANGED clientVars

\* stagehand.init() rejected: init() throws, executeSearch() is never called
InitFail ==
  /\ pc = "init"
  /\ pc' = "done"
  /\ error' = InitError
  /\ outcome' = "threw"
  /\ fault' = TRUE
  /\ UNCHANGED <<retryVars, loopVars, planVars, boundVars, pendingActs,
                 timer, results, searchResults, calls>>
  /\ UNCHANGED logVars
  /\ otherFault' = TRUE
  /\ UNCHANGED actResolved
  /\ route' = IF outcome' = "returned" THEN "complete_write" ELSE "error_write"
  /\ UNCHANGED <<stream, writeFault>>
  /\ UNCHANGED clientVars

(* --------------------------- executeSearch ----------------------------- *)
\* page.goto resolved: consecutiveErrors = 0, the loop invokes page.observe
GotoOk ==
  /\ pc = "goto"
  /\ consecutiveErrors' = 0
  /\ StartObserve
  /\ UNCHANGED <<retryVars, planVars, endVars, boundVars, pendingActs,
                 timer, caught, error, fault>>
  /\ UNCHANGED logVars
  /\ UNCHANGED scriptVars
  /\ UNCHANGED routeVars
  /\ UNCHANGED clientVars

\* page.goto rejected and the navigation is attempted again
GotoFail_Retried ==
  /\ pc = "goto"
  /\ pc' = "goto"
  /\ calls' = Inc(calls, {"goto"})
  /\ fault' = TRUE
  /\ UNCHANGED <<retryVars, loopVars, planVars, endVars, boundVars,
                 pendingActs, timer, error>>
  /\ UNCHANGED logVars
  /\ otherFault' = TRUE
  /\ UNCHANGED actResolved
  /\ UNCHANGED routeVars
  /\ UNCHANGED clientVars

\* page.goto rejected
GotoFail ==
  /\ pc = "goto"
  /\ Throw(GotoError, {})
  /\ fault' = TRUE
  /\ UNCHANGED <<retryVars, loopVars, planVars, endVars, boundVars,
                 pendingActs, timer>>
  /\ UNCHANGED logVars
  /\ otherFault' = TRUE
  /\ UNCHANGED actResolved
  /\ UNCHANGED routeVars
  /\ UNCHANGED clientVars

\* page.observe resolved: getNextAction -> retryOperation starts its first
\* attempt, which invokes generateObject
ObserveOk ==
  /\ pc = "observe"
  /\ calls.observe <= MaxIterations
  /\ i' = 0
  /\ lastError' = "undefined"
  /\ pc' = "plan_llm"
  /\ calls' = Inc(calls, {"plan"})
  /\ UNCHANGED <<loopVars, planVars, endVars, boundVars, pendingActs,
                 timer, error, fault>>
  /\ UNCHANGED logVars
  /\ UNCHANGED scriptVars
  /\ UNCHANGED routeVars
  /\ UNCHANGED clientVars

\* page.observe rejected
ObserveFail ==
  /\ pc = "observe"
  /\ calls.observe <= MaxIterations
  /\ LoopCatch(ObserveError, {})
  /\ fault' = TRUE
  /\ UNCHANGED <<retryVars, planVars, endVars, boundVars, pendingActs,
                 timer>>
  /\ UNCHANGED logVars
  /\ otherFault' = TRUE
  /\ UNCHANGED actResolved
  /\ UNCHANGED routeVars
  /\ UNCHANGED clientVars

(* ---------------------------- getNextAction ---------------------------- *)
\* the attempt forwards the action but does not push it to the history
LLMOk_NoRecord ==
  /\ pc = "plan_llm"
  /\ \E r \in LLMResponses :
       /\ ActionSchema(r)
       /\ action' = FormatAction(r)
       /\ sinkLog' = Append(sinkLog, FormatAction(r))
  /\ pc' = "plan_sink"
  /\ UNCHANGED <<retryVars, loopVars, endVars, boundVars, actionHistory,
                 nextAction, pendingActs, timer, error, calls, actArg, fault>>
  /\ UNCHANGED scriptVars
  /\ UNCHANGED routeVars
  /\ UNCHANGED clientVars

\* generateObject resolved with an object of the schema: format the action,
\* push it to the history, invoke config.onAction
LLMOk ==
  /\ pc = "plan_llm"
  /\ \E r \in LLMResponses :
       /\ ActionSchema(r)
       /\ action' = FormatAction(r)
       /\ actionHistory' = Append(actionHistory, FormatAction(r))
       /\ sinkLog' = Append(sinkLog, FormatAction(r))
  /\ pc' = "plan_sink"
  /\ UNCHANGED actArg
  /\ UNCHANGED <<retryVars, loopVars, endVars, boundVars, nextAction,
                 pendingActs, timer, error, calls, fault>>
  /\ UNCHANGED scriptVars
  /\ UNCHANGED routeVars
  /\ UNCHANGED clientVars

\* generateObject rejected: the model call failed, or its answer does not
\* validate against ActionSchema; the attempt fails, the backoff timer is armed
LLMFail ==
  /\ pc = "plan_llm"
  /\ \/ lastError' = LLMError
     \/ \E r \in LLMResponses : ~ActionSchema(r) /\ lastError' = NoObjectError
  /\ pc' = "plan_backoff"
  /\ timer' = Backoff(i)
  /\ fault' = TRUE
  /\ UNCHANGED <<i, loopVars, planVars, endVars, boundVars, pendingActs,
                 error, calls>>
  /\ UNCHANGED logVars
  /\ otherFault' = TRUE
  /\ UNCHANGED actResolved
  /\ UNCHANGED routeVars
  /\ UNCHANGED clientVars

\* getNextAction has returned a: the completion check and what follows it
AfterPlanning(a) ==
  /\ nextAction' = a
  /\ IF CompletionCheck[a]
       THEN \* break; page.extract is invoked
            /\ pc' = "extract"
            /\ calls' = Inc(calls, {"planReturned", "extract"})
            /\ UNCHANGED <<pendingActs, timer, actArg>>
       ELSE \* executeAction -> retryOperation: first attempt
            StartAct(a, {"planReturned", "exec"})

\* config.onAction resolved: the attempt returns action, retryOperation and
\* getNextAction return it
SinkOk ==
  /\ pc = "plan_sink"
  /\ AfterPlanning(action)
  /\ action' = ""
  /\ i' = 0
  /\ lastError' = "undefined"
  /\ UNCHANGED <<loopVars, endVars, boundVars, actionHistory, sinkLog,
                 error, fault>>
  /\ UNCHANGED scriptVars
  /\ stream' = Append(stream, action)
  /\ UNCHANGED <<route, writeFault>>
  /\ UNCHANGED clientVars

\* config.onAction rejected (writer.write failed): the attempt fails
SinkFail ==
  /\ pc = "plan_sink"
  /\ sinkFailures < MaxSinkFailures
  /\ sinkFailures' = sinkFailures + 1
  /\ lastError' = SinkError
  /\ action' = ""
  /\ pc' = "plan_backoff"
  /\ timer' = Backoff(i)
  /\ fault' = TRUE
  /\ UNCHANGED <<i, loopVars, endVars, actionHistory, nextAction,
                 pendingActs, error, calls, timeouts>>
  /\ UNCHANGED logVars
  /\ otherFault' = TRUE
  /\ UNCHANGED actResolved
  /\ writeFault' = TRUE
  /\ UNCHANGED <<route, stream>>
  /\ UNCHANGED clientVars

\* retryOperation's composite error of the planner leaves the loop instead of
\* being counted by the loop's catch
PlanBackoff_Fatal ==
  /\ pc = "plan_backoff"
  /\ timer' = 0
  /\ IF MoreAttempts(i + 1)
       THEN /\ i' = i + 1
            /\ pc' = "plan_llm"
            /\ UNCHANGED <<lastError, loopVars, error, calls>>
       ELSE /\ Throw(CompositeError(PlanLabel, lastError), {})
            /\ i' = 0
            /\ lastError' = "undefined"
            /\ UNCHANGED loopVars
  /\ UNCHANGED <<planVars, endVars, boundVars, pendingActs, fault>>
  /\ UNCHANGED logVars
  /\ UNCHANGED scriptVars
  /\ UNCHANGED routeVars
  /\ UNCHANGED clientVars

\* the backoff timer of a failed planning attempt fired: the next attempt
\* invokes generateObject, or retryOperation throws the composite error into
\* the loop's catch
PlanBackoff ==
  /\ pc = "plan_backoff"
  /\ timer' = 0
  /\ IF MoreAttempts(i + 1)
       THEN /\ i' = i + 1
            /\ pc' = "plan_llm"
            /\ UNCHANGED <<lastError, loopVars, error, calls>>
       ELSE /\ LoopCatch(CompositeError(PlanLabel, lastError), {})
            /\ i' = 0
            /\ lastError' = "undefined"
  /\ UNCHANGED <<planVars, endVars, boundVars, pendingActs, fault>>
  /\ UNCHANGED logVars
  /\ UNCHANGED scriptVars
  /\ UNCHANGED routeVars
  /\ UNCHANGED clientVars

(* ---------------------------- executeAction ---------------------------- *)
\* executeAction returns but consecutiveErrors = 0 is missing
ActResolve_NoReset ==
  /\ pc = "act_race"
  /\ pendingActs' = pendingActs - 1
  /\ pc' = "delay"
  /\ timer' = VisibilityDelay
  /\ i' = 0
  /\ lastError' = "undefined"
  /\ UNCHANGED <<loopVars, planVars, endVars, boundVars, error, calls, fault>>
  /\ UNCHANGED logVars
  /\ actResolved' = TRUE
  /\ UNCHANGED otherFault
  /\ UNCHANGED routeVars
  /\ UNCHANGED clientVars

\* page.act of the running attempt resolved before the timer: executeAction
\* returns, the error counter is reset, the visibility delay is armed
ActResolve ==
  /\ pc = "act_race"
  /\ pendingActs' = pendingActs - 1
  /\ consecutiveErrors' = 0
  /\ pc' = "delay"
  /\ timer' = VisibilityDelay
  /\ i' = 0
  /\ lastError' = "undefined"
  /\ UNCHANGED <<planVars, endVars, boundVars, caught, error, calls, fault>>
  /\ UNCHANGED logVars
  /\ actResolved' = TRUE
  /\ UNCHANGED otherFault
  /\ UNCHANGED routeVars
  /\ UNCHANGED clientVars

\* page.act of the running attempt rejected before the timer
ActReject ==
  /\ pc = "act_race"
  /\ pendingActs' = pendingActs - 1
  /\ lastError' = ActError
  /\ pc' = "act_backoff"
  /\ timer' = Backoff(i)
  /\ fault' = TRUE
  /\ UNCHANGED <<i, loopVars, planVars, endVars, boundVars, error, calls>>
  /\ UNCHANGED logVars
  /\ UNCHANGED scriptVars
  /\ UNCHANGED routeVars
  /\ UNCHANGED clientVars

\* the actionTimeout timer fired first: Promise.race rejects with
\* 'Action timeout'; nothing cancels page.act, which stays pending
ActTimeout ==
  /\ pc = "act_race"
  /\ timer = actionTimeout
  /\ timeouts < MaxTimeouts
  /\ timeouts' = timeouts + 1
  /\ lastError' = ActionTimeoutError
  /\ pc' = "act_backoff"
  /\ timer' = Backoff(i)
  /\ fault' = TRUE
  /\ UNCHANGED <<i, loopVars, planVars, endVars, pendingActs, error, calls,
                 sinkFailures>>
  /\ UNCHANGED logVars
  /\ UNCHANGED scriptVars
  /\ UNCHANGED routeVars
  /\ UNCHANGED clientVars

\* a page.act call that lost its race settles later; nobody awaits it
LateActSettle ==
  /\ pendingActs > (IF pc = "act_race" THEN 1 ELSE 0)
  /\ pendingActs' = pendingActs - 1
  /\ UNCHANGED <<pc, retryVars, loopVars, planVars, endVars, boundVars,
                 timer, error, calls, fault>>
  /\ UNCHANGED logVars
  /\ UNCHANGED scriptVars
  /\ UNCHANGED routeVars
  /\ UNCHANGED clientVars

\* after a failed act attempt the loop plans again instead of re-attempting
\* the same action
ActBackoff_Replan ==
  /\ pc = "act_backoff"
  /\ IF MoreAttempts(i + 1)
       THEN /\ i' = 0
            /\ lastError' = "undefined"
            /\ pc' = "plan_llm"
            /\ timer' = 0
            /\ calls' = Inc(calls, {"plan"})
            /\ UNCHANGED <<loopVars, error, pendingActs, actArg>>
       ELSE /\ LoopCatch(CompositeError(ActLabel(nextAction), lastError), {})
            /\ i' = 0
            /\ lastError' = "undefined"
            /\ timer' = 0
            /\ UNCHANGED <<pendingActs, actArg>>
  /\ UNCHANGED <<planVars, endVars, boundVars, sinkLog, fault>>
  /\ UNCHANGED scriptVars
  /\ UNCHANGED routeVars
  /\ UNCHANGED clientVars

\* the backoff timer of a failed act attempt fired: the next attempt invokes
\* page.act with the same action, or retryOperation throws
ActBackoff ==
  /\ pc = "act_backoff"
  /\ IF MoreAttempts(i + 1)
       THEN /\ i' = i + 1
            /\ StartAct(nextAction, {})
            /\ UNCHANGED <<lastError, loopVars, error>>
       ELSE /\ LoopCatch(CompositeError(ActLabel(nextAction), lastError), {})
            /\ i' = 0
            /\ lastError' = "undefined"
            /\ timer' = 0
            /\ UNCHANGED <<pendingActs, actArg>>
  /\ UNCHANGED <<planVars, endVars, boundVars, sinkLog, fault>>
  /\ UNCHANGED scriptVars
  /\ UNCHANGED routeVars
  /\ UNCHANGED clientVars

(* ----------------------- executeSearch, continued ---------------------- *)
\* the 1 s visibility delay elapsed: the next iteration invokes page.observe
Delay ==
  /\ pc = "delay"
  /\ timer' = 0
  /\ StartObserve
  /\ UNCHANGED <<retryVars, loopVars, planVars, endVars, boundVars,
                 pendingActs, error, fault>>
  /\ UNCHANGED logVars
  /\ UNCHANGED scriptVars
  /\ UNCHANGED routeVars
  /\ UNCHANGED clientVars

\* the continue path also resets the error counter
ScreenshotOk_Reset ==
  /\ pc = "screenshot"
  /\ caught' = NoError
  /\ consecutiveErrors' = 0
  /\ StartObserve
  /\ UNCHANGED <<retryVars, planVars, endVars, boundVars, pendingActs,
                 timer, error, fault>>
  /\ UNCHANGED logVars
  /\ UNCHANGED scriptVars
  /\ UNCHANGED routeVars
  /\ UNCHANGED clientVars

\* page.screenshot resolved: continue, the next iteration invokes page.observe
ScreenshotOk ==
  /\ pc = "screenshot"
  /\ caught' = NoError
  /\ StartObserve
  /\ UNCHANGED <<retryVars, planVars, endVars, boundVars, consecutiveErrors,
                 pendingActs, timer, error, fault>>
  /\ UNCHANGED logVars
  /\ UNCHANGED scriptVars
  /\ UNCHANGED routeVars
  /\ UNCHANGED clientVars

\* page.screenshot rejected inside the catch block: the error leaves the loop
ScreenshotFail ==
  /\ pc = "screenshot"
  /\ caught' = NoError
  /\ Throw(ScreenshotError, {})
  /\ fault' = TRUE
  /\ UNCHANGED <<retryVars, planVars, endVars, boundVars, consecutiveErrors,
                 pendingActs, timer>>
  /\ UNCHANGED logVars
  /\ otherFault' = TRUE
  /\ UNCHANGED actResolved
  /\ UNCHANGED routeVars
  /\ UNCHANGED clientVars

\* page.extract resolved with d: SearchResultsSchema.parse(d) returns or
\* throws; either way finally invokes close()
ExtractOk ==
  /\ pc = "extract"
  /\ \E d \in ExtractedData :
       /\ results' = d
       /\ IF SearchResultsSchema(d)
            THEN /\ pc' = "close"
                 /\ calls' = Inc(calls, {"close"})
                 /\ UNCHANGED <<error, fault>>
            ELSE /\ Throw(ZodError, {})
                 /\ fault' = TRUE
  /\ UNCHANGED <<retryVars, loopVars, planVars, boundVars, pendingActs,
                 timer, outcome, searchResults>>
  /\ UNCHANGED logVars
  /\ otherFault' = (otherFault \/ error' = ZodError)
  /\ UNCHANGED actResolved
  /\ UNCHANGED routeVars
  /\ UNCHANGED clientVars

\* page.extract rejected
ExtractFail ==
  /\ pc = "extract"
  /\ Throw(ExtractError, {})
  /\ fault' = TRUE
  /\ UNCHANGED <<retryVars, loopVars, planVars, endVars, boundVars,
                 pendingActs, timer>>
  /\ UNCHANGED logVars
  /\ otherFault' = TRUE
  /\ UNCHANGED actResolved
  /\ UNCHANGED routeVars
  /\ UNCHANGED clientVars

(* -------------------------------- close -------------------------------- *)
\* stagehand.close() resolved: executeSearch returns the parsed results or
\* throws the pending error
CloseOk ==
  /\ pc = "close"
  /\ pc' = "done"
  /\ IF error = NoError
       THEN outcome' = "returned" /\ searchResults' = Parse(results)
       ELSE outcome' = "threw" /\ UNCHANGED searchResults
  /\ UNCHANGED <<retryVars, loopVars, planVars, boundVars, pendingActs,
                 timer, results, error, calls, fault>>
  /\ UNCHANGED logVars
  /\ UNCHANGED scriptVars
  /\ route' = IF outcome' = "returned" THEN "complete_write" ELSE "error_write"
  /\ UNCHANGED <<stream, writeFault>>
  /\ UNCHANGED clientVars

\* stagehand.close() rejected inside finally: executeSearch throws that error
CloseFail ==
  /\ pc = "close"
  /\ pc' = "done"
  /\ error' = CloseError
  /\ outcome' = "threw"
  /\ fault' = TRUE
  /\ UNCHANGED <<retryVars, loopVars, planVars, boundVars, pendingActs,
                 timer, results, searchResults, calls>>
  /\ UNCHANGED logVars
  /\ otherFault' = TRUE
  /\ UNCHANGED actResolved
  /\ route' = IF outcome' = "returned" THEN "complete_write" ELSE "error_write"
  /\ UNCHANGED <<stream, writeFault>>
  /\ UNCHANGED clientVars

(* ----------------- route.ts: the streaming task of POST ----------------- *)
StartMessage == "Starting provider search..."
CompleteEvent == "complete"
ErrorEvent == "Search failed"

\* the initial writer.write resolved: the WebAgentService is constructed and
\* init() is about to be awaited
StartWriteOk ==
  /\ route = "start_write"
  /\ stream' = Append(stream, StartMessage)
  /\ route' = "searching"
  /\ UNCHANGED <<pc, retryVars, loopVars, planVars, endVars, boundVars,
                 pendingActs, timer, error, calls, fault, writeFault>>
  /\ UNCHANGED <<logVars, scriptVars>>
  /\ UNCHANGED clientVars

\* the initial writer.write rejected: catch writes the error event
StartWriteFail ==
  /\ route = "start_write"
  /\ writeFault' = TRUE
  /\ route' = "error_write"
  /\ UNCHANGED <<pc, retryVars, loopVars, planVars, endVars, boundVars,
                 pendingActs, timer, error, calls, fault, stream>>
  /\ UNCHANGED <<logVars, scriptVars>>
  /\ UNCHANGED clientVars

\* the write of the completion event resolved out of the try block into
\* catch: the error event is written as well
CompleteWriteOk_FallsThrough ==
  /\ route = "complete_write"
  /\ stream' = Append(stream, CompleteEvent)
  /\ route' = "error_write"
  /\ UNCHANGED <<pc, retryVars, loopVars, planVars, endVars, boundVars,
                 pendingActs, timer, error, calls, fault, writeFault>>
  /\ UNCHANGED <<logVars, scriptVars>>
  /\ UNCHANGED clientVars

\* the write of the completion event resolved: finally invokes writer.close
CompleteWriteOk ==
  /\ route = "complete_write"
  /\ stream' = Append(stream, CompleteEvent)
  /\ route' = "writer_close"
  /\ UNCHANGED <<pc, retryVars, loopVars, planVars, endVars, boundVars,
                 pendingActs, timer, error, calls, fault, writeFault>>
  /\ UNCHANGED <<logVars, scriptVars>>
  /\ UNCHANGED clientVars

\* the write of the completion event rejected: catch writes the error event
CompleteWriteFail ==
  /\ route = "complete_write"
  /\ writeFault' = TRUE
  /\ route' = "error_write"
  /\ UNCHANGED <<pc, retryVars, loopVars, planVars, endVars, boundVars,
                 pendingActs, timer, error, calls, fault, stream>>
  /\ UNCHANGED <<logVars, scriptVars>>
  /\ UNCHANGED clientVars

\* the write of the error event resolved: finally invokes writer.close
ErrorWriteOk ==
  /\ route = "error_write"
  /\ stream' = Append(stream, ErrorEvent)
  /\ route' = "writer_close"
  /\ UNCHANGED <<pc, retryVars, loopVars, planVars, endVars, boundVars,
                 pendingActs, timer, error, calls, fault, writeFault>>
  /\ UNCHANGED <<logVars, scriptVars>>
  /\ UNCHANGED clientVars

\* the write of the error event rejected inside catch: finally still invokes
\* writer.close
ErrorWriteFail ==
  /\ route = "error_write"
  /\ writeFault' = TRUE
  /\ route' = "writer_close"
  /\ UNCHANGED <<pc, retryVars, loopVars, planVars, endVars, boundVars,
                 pendingActs, timer, error, calls, fault, stream>>
  /\ UNCHANGED <<logVars, scriptVars>>
  /\ UNCHANGED clientVars

\* writer.close() resolved: the streaming task ends
WriterCloseOk ==
  /\ route = "writer_close"
  /\ route' = "closed"
  /\ UNCHANGED <<pc, retryVars, loopVars, planVars, endVars, boundVars,
                 pendingActs, timer, error, calls, fault, stream, writeFault>>
  /\ UNCHANGED <<logVars, scriptVars>>
  /\ UNCHANGED clientVars

\* writer.close() rejected: the streaming task ends with that rejection
WriterCloseFail ==
  /\ route = "writer_close"
  /\ route' = "closed"
  /\ writeFault' = TRUE
  /\ UNCHANGED <<pc, retryVars, loopVars, planVars, endVars, boundVars,
                 pendingActs, timer, error, calls, fault, stream>>
  /\ UNCHANGED <<logVars, scriptVars>>
  /\ UNCHANGED clientVars

Next ==
  \/ StartInit \/ InitOk \/ InitFail
  \/ GotoOk \/ GotoFail
  \/ ObserveOk \/ ObserveFail
  \/ LLMOk \/ LLMFail \/ SinkOk \/ SinkFail \/ PlanBackoff
  \/ ActResolve \/ ActReject \/ ActTimeout \/ LateActSettle \/ ActBackoff
  \/ Delay
  \/ ScreenshotOk \/ ScreenshotFail
  \/ ExtractOk \/ ExtractFail
  \/ CloseOk \/ CloseFail
  \/ StartWriteOk \/ StartWriteFail
  \/ CompleteWriteOk \/ CompleteWriteFail
  \/ ErrorWriteOk \/ ErrorWriteFail
  \/ WriterCloseOk \/ WriterCloseFail

Spec == Init /\ [][Next]_vars

TypeOK ==
  /\ pc \in {"idle", "init", "goto", "observe", "plan_llm", "plan_sink",
             "plan_backoff", "act_race", "act_backoff", "delay",
             "screenshot", "extract", "close", "done"}
  /\ i \in 0..(maxRetries - 1)
  /\ consecutiveErrors \in 0..maxConsecutiveErrors
  /\ pendingActs \in 0..(MaxTimeouts + 1)
  /\ timer \in {0, actionTimeout, Backoff(0), Backoff(1), Backoff(2)}
  /\ outcome \in {"pending", "returned", "threw"}
  /\ fault \in BOOLEAN
  /\ otherFault \in BOOLEAN
  /\ actResolved \in BOOLEAN
  /\ route \in {"start_write", "searching", "complete_write", "error_write",
                "writer_close", "closed"}
  /\ writeFault \in BOOLEAN

(* ------------------- the wire between route.ts and the page ------------- *)
\* route.ts: `data: ${JSON.stringify(obj)}\n\n`
SSEFrame(obj) == [prefix |-> "data: ", data |-> obj, sep |-> "\n\n"]

\* NextResponse.json(obj, { status }): the body is the JSON text, unframed
JsonBody(obj) == [prefix |-> "", data |-> obj, sep |-> ""]

JsonErrorResponses ==
  { [status |-> 400, wire |-> <<JsonBody([error |->
       "Missing required fields: query, provider, and location are required"])>>],
    [status |-> 400, wire |-> <<JsonBody([error |->
       "Invalid insurance provider selected"])>>],
    [status |-> 400, wire |-> <<JsonBody([error |->
       "Cannot identify specialist types"])>>],
    [status |-> 500, wire |-> <<JsonBody([error |->
       "Search service not properly configured"])>>],
    [status |-> 500, wire |-> <<JsonBody([error |->
       "Failed to process request"])>>] }

\* what executeSearch can return: the parsed extraction results
ReturnedResults == {Parse(d) : d \in {x \in ExtractedData : SearchResultsSchema(x)}}

TerminalFrames ==
  {SSEFrame([error |-> ErrorEvent])} \cup
  {SSEFrame([complete |-> TRUE, results |-> r]) : r \in ReturnedResults}

\* the action events of one search, at most MaxEvents of them
ActionRuns == UNION {[1..n -> PlannedActions] : n \in 0..MaxEvents}

StreamResponses ==
  { [status |-> 200,
     wire |-> <<SSEFrame([message |-> StartMessage])>>
              \o [k \in 1..Len(q) |-> SSEFrame([action |-> q[k]])]
              \o <<t>>] : q \in ActionRuns, t \in TerminalFrames }
  \cup {[status |-> 200, wire |-> <<SSEFrame([error |-> ErrorEvent])>>]}

ServerResponses == JsonErrorResponses \cup StreamResponses

(* ------------------------ client: handleSearch -------------------------- *)
Has(d, key) == key \in DOMAIN d

\* Array.prototype.join with the separator of line 163 (an arrow, written
\* here in ASCII)
RECURSIVE Join(_)
Join(q) ==
  IF Len(q) = 0 THEN ""
  ELSE IF Len(q) = 1 THEN q[1]
  ELSE q[1] \o " -> " \o Join(Tail(q))

\* the body of `for (const line of lines)` for one complete line; st is the
\* pair of client states the loop can change
ProcessLine(st, f) ==
  IF f.prefix # "data: " THEN st
  ELSE LET data == f.data IN
    IF Has(data, "message") /\ data.message # ""
      THEN [st EXCEPT !.actions = Append(@, data.message)]
    ELSE IF Has(data, "action") /\ data.action # ""
      THEN [st EXCEPT !.actions = Append(@, data.action)]
    ELSE IF Has(data, "complete") /\ data.complete
      THEN IF Has(data.results, "specialists")
             THEN [st EXCEPT !.specialistType = Join(data.results.specialists)]
             ELSE st   \* TypeError, caught and logged by the inner catch
    ELSE st            \* data.error: thrown, caught and logged by the inner catch

RECURSIVE ProcessLines(_, _)
ProcessLines(st, fs) ==
  IF fs = <<>> THEN st ELSE ProcessLines(ProcessLine(st, Head(fs)), Tail(fs))

\* the frames among wire[from..to] that split('\n\n') yields as complete lines
CompleteLines(wire, from, to) ==
  SelectSeq(SubSeq(wire, from, to), LAMBDA f : f.sep = "\n\n")

\* handleSearch with no location set: the early return
HandleSearchNoLocation ==
  /\ cpc = "idle"
  /\ actions' = <<>>
  /\ uiError' = "Please enter your location or use current location"
  /\ cpc' = "ended"
  /\ UNCHANGED <<response, delivered, buffered, isLoading, specialistType>>
  /\ UNCHANGED serverVars

\* handleSearch with a location: state is reset and fetch is invoked
HandleSearch ==
  /\ cpc = "idle"
  /\ actions' = <<>>
  /\ isLoading' = TRUE
  /\ specialistType' = ""
  /\ uiError' = "null"
  /\ cpc' = "fetch"
  /\ UNCHANGED <<response, delivered, buffered>>
  /\ UNCHANGED serverVars

\* fetch resolved, whatever the status: the reader is taken, reader.read() is
\* awaited
FetchOk ==
  /\ cpc = "fetch"
  /\ \E r \in ServerResponses : response' = r
  /\ cpc' = "read"
  /\ UNCHANGED <<delivered, buffered, actions, uiError, isLoading,
                 specialistType>>
  /\ UNCHANGED serverVars

\* fetch rejected: outer catch, then finally
FetchFail ==
  /\ cpc = "fetch"
  /\ uiError' = "Failed to fetch"
  /\ isLoading' = FALSE
  /\ cpc' = "ended"
  /\ UNCHANGED <<response, delivered, buffered, actions, specialistType>>
  /\ UNCHANGED serverVars

\* reader.read() resolved with a chunk that brings the body up to frame n,
\* plus, when part, the first bytes of the next frame; the complete lines
\* are processed, the rest stays in buffer
ReadChunk ==
  /\ cpc = "read"
  /\ \E n \in delivered..Len(response.wire), part \in BOOLEAN :
       /\ part => n < Len(response.wire)
       /\ n > delivered \/ (part /\ ~buffered)
       /\ LET st == ProcessLines([actions |-> actions,
                                  specialistType |-> specialistType],
                                 CompleteLines(response.wire, delivered + 1, n))
          IN /\ actions' = st.actions
             /\ specialistType' = st.specialistType
       /\ delivered' = n
       /\ buffered' = (part \/ (n > 0 /\ response.wire[n].sep # "\n\n"))
  /\ UNCHANGED <<cpc, response, uiError, isLoading>>
  /\ UNCHANGED serverVars

\* reader.read() resolved with done: break, then finally
ReadDone ==
  /\ cpc = "read"
  /\ delivered = Len(response.wire)
  /\ isLoading' = FALSE
  /\ cpc' = "ended"
  /\ UNCHANGED <<response, delivered, buffered, actions, uiError,
                 specialistType>>
  /\ UNCHANGED serverVars

\* reader.read() rejected: outer catch, then finally
ReadFail ==
  /\ cpc = "read"
  /\ uiError' = "network error"
  /\ isLoading' = FALSE
  /\ cpc' = "ended"
  /\ UNCHANGED <<response, delivered, buffered, actions, specialistType>>
  /\ UNCHANGED serverVars

ClientNext ==
  \/ HandleSearchNoLocation \/ HandleSearch
  \/ FetchOk \/ FetchFail
  \/ ReadChunk \/ ReadDone \/ ReadFail

ClientSpec == Init /\ [][ClientNext]_vars

(* ======================================================================= *)
(*                        Properties of the agent loop                     *)
(* ======================================================================= *)
PlanningPcs == {"plan_llm", "plan_sink", "plan_backoff"}
ActingPcs == {"act_race", "act_backoff"}
Finished == pc = "done"

(* C1: in every search the teardown stagehand.close is invoked exactly once
   on every exit path, an exception raised by init included. *)
C1_CloseExactlyOnce == Finished => calls.close = 1

(* C2: whenever no planning call is running, the length of ActionHistory
   equals the number of planning calls that have returned, and every entry is
   "<TOOL>: <instruction>" with TOOL in the tool enumeration. *)
WellFormed(e) == \E t \in Tools : startsWith(e, t \o ": ")

C2_HistoryMatchesPlanning ==
  /\ pc \notin PlanningPcs => Len(actionHistory) = calls.planReturned
  /\ \A k \in 1..Len(actionHistory) : WellFormed(actionHistory[k])

(* C3: once the consecutive-error counter is 3 the search has aborted with
   'Too many consecutive errors': page.extract has not been and is not
   invoked, and no observe, planning or act call is started any more. *)
C3_NoCallStarted ==
  consecutiveErrors = maxConsecutiveErrors =>
    /\ calls'.observe = calls.observe
    /\ calls'.plan = calls.plan
    /\ calls'.act = calls.act
    /\ calls'.extract = calls.extract
    /\ pc' \in {"close", "done"}

C3_Aborted ==
  consecutiveErrors = maxConsecutiveErrors =>
    /\ pc \in {"close", "done"}
    /\ calls.extract = 0
    /\ calls.close = 1
    /\ pc = "close" => error = TooManyErrors
    /\ pc = "done" => outcome = "threw" /\ error \in {TooManyErrors, CloseError}

C3_AbortAtThreeErrors == []C3_Aborted /\ [][C3_NoCallStarted]_vars

C3_Witness ==
  /\ Finished
  /\ consecutiveErrors = maxConsecutiveErrors
  /\ error = TooManyErrors
  /\ calls.observe = 3

(* C4: the consecutive-error counter becomes zero exactly when executeAction
   succeeds; every other step leaves it unchanged or raises it by one. *)
ExecuteActionSucceeds == pc = "act_race" /\ pc' = "delay"

C4_CounterStep ==
  /\ ExecuteActionSucceeds => consecutiveErrors' = 0
  /\ ~ExecuteActionSucceeds =>
       consecutiveErrors' \in {consecutiveErrors, consecutiveErrors + 1}

C4_CounterResetOnlyOnSuccess == [][C4_CounterStep]_vars

\* the first successful execution came after a failed observation
C4_Witness ==
  /\ pc = "delay"
  /\ consecutiveErrors = 0
  /\ calls.exec = 1
  /\ calls.observe > calls.plan

(* C5: when the instruction text of the action planning returned contains
   "complete" or "finished" in any letter case, executeAction is not invoked
   for it and the next session call is page.extract; an action is executed
   only if its instruction text contains neither marker. *)
Markers == {"complete", "finished"}

SameIgnoringCase(u, v) ==
  /\ Len(u) = Len(v)
  /\ \A k \in 1..Len(u) :
       ToLowerChar(SubSeq(u, k, k)) = ToLowerChar(SubSeq(v, k, k))

TextHasMarker(t) ==
  \E m \in Markers : \E k \in 1..(Len(t) - Len(m) + 1) :
     SameIgnoringCase(SubSeq(t, k, k + Len(m) - 1), m)

\* the planner answers whose instruction text carries a marker
MarkerResponses == {r \in LLMResponses : TextHasMarker(r.instruction)}
MarkerActions == {FormatAction(r) : r \in MarkerResponses}

PlanningReturns == pc = "plan_sink" /\ pc' \notin PlanningPcs

C5_CheckStep ==
  PlanningReturns =>
    IF nextAction' \in MarkerActions
      THEN /\ pc' = "extract"
           /\ calls'.extract = calls.extract + 1
           /\ calls'.exec = calls.exec
           /\ calls'.act = calls.act
      ELSE /\ pc' = "act_race"
           /\ calls'.exec = calls.exec + 1
           /\ calls'.extract = calls.extract

C5_OnlyUnmarkedExecuted ==
  pc \in ActingPcs \cup {"delay"} => nextAction \notin MarkerActions

C5_CompletionSkipsExecution ==
  []C5_OnlyUnmarkedExecuted /\ [][C5_CheckStep]_vars

\* an upper-case marker ended the loop after one executed action
C5_Witness ==
  /\ pc = "extract"
  /\ nextAction = "EXTRACT: Search FINISHED"
  /\ calls.exec = 1
  /\ calls.planReturned = 2

(* C6: retryOperation on an operation failing every time makes exactly 3
   attempts and throws "<label>: <message of the last error>"; when attempt
   k <= 3 succeeds it has made exactly k attempts and returns that result. *)
RetryThrows == pc \in {"plan_backoff", "act_backoff"} /\ pc' \in {"screenshot", "close"}
RetryRetries == pc \in {"plan_backoff", "act_backoff"} /\ pc' \in {"plan_llm", "act_race"}
RetryReturns ==
  \/ pc = "plan_sink" /\ pc' \in {"extract", "act_race"}
  \/ pc = "act_race" /\ pc' = "delay"

\* the label of the retryOperation call in progress
RetryLabel == IF pc \in PlanningPcs THEN PlanLabel
              ELSE "Failed to execute action: " \o nextAction

C6_RetryStep ==
  /\ RetryThrows =>
       /\ i + 1 = 3
       /\ lastError # "undefined"
       /\ caught' = RetryLabel \o ": " \o lastError
  /\ RetryRetries => i + 1 < 3 /\ i' = i + 1
  /\ RetryReturns =>
       /\ i + 1 <= 3
       /\ pc = "plan_sink" => nextAction' = action /\ action = actionHistory[Len(actionHistory)]
       /\ pc = "act_race" => calls'.act = calls.act /\ pendingActs' = pendingActs - 1

C6_RetrySemantics == [][C6_RetryStep]_vars

\* three act attempts failed, the last one by timeout
C6_Witness ==
  /\ pc = "screenshot"
  /\ calls.act = 3
  /\ caught = "Failed to execute action: ACT: click Search: Action timeout"

(* C7: when the timer wins the race, the attempt ends with 'Action timeout'
   after actionTimeout ms and the act call is no longer pending. *)
TimedOut == pc = "act_backoff" /\ lastError = ActionTimeoutError

C7_TimeoutCancelsAct == TimedOut => pendingActs = 0

(* C8: at most one act call of a session is in progress at any time. *)
C8_OneActAtATime == pendingActs <= 1

(* C9: when no call fails and the planner returns k actions without a marker
   and then one with a marker, the search makes exactly k+1 planning calls and
   k action executions (one act call each), then one extraction, and returns
   the extracted SearchResult. *)
\* v is the provider list d carries, field by field, and nothing else
SameProviders(v, d) ==
  /\ DOMAIN v = {"providers"}
  /\ Len(v.providers) = Len(d.providers)
  /\ \A k \in 1..Len(d.providers) :
       /\ DOMAIN v.providers[k] \subseteq {"name", "specialty", "address", "phone"}
       /\ \A f \in {"name", "specialty", "address", "phone"} :
            f \in DOMAIN d.providers[k] =>
              /\ f \in DOMAIN v.providers[k]
              /\ v.providers[k][f] = d.providers[k][f]

C9_FaultFreeRun ==
  (Finished /\ ~fault) =>
    LET n == Len(actionHistory) IN
    /\ n >= 1
    /\ \A k \in 1..(n - 1) : actionHistory[k] \notin MarkerActions
    /\ actionHistory[n] \in MarkerActions
    /\ calls.plan = n
    /\ calls.planReturned = n
    /\ calls.observe = n
    /\ calls.exec = n - 1
    /\ calls.act = n - 1
    /\ calls.extract = 1
    /\ outcome = "returned"
    /\ SameProviders(searchResults, results)

\* two intermediate actions, three planning calls, a non-empty result
C9_Witness ==
  /\ Finished /\ ~fault
  /\ actionHistory = <<"ACT: click Search", "ACT: click Search",
                       "CLOSE: session complete">>
  /\ calls.exec = 2 /\ calls.plan = 3
  /\ outcome = "returned"
  /\ Len(searchResults.providers) = 2

(* C10: extracted data that violates the provider schema makes executeSearch
   throw: nothing is returned, extraction is not repeated, and the session is
   still torn down. *)
\* d is no provider list, or one of its providers lacks a required field
ViolatesSchema(d) ==
  \/ "providers" \notin DOMAIN d
  \/ \E k \in 1..Len(d.providers) :
       \E f \in {"name", "specialty", "address"} : f \notin DOMAIN d.providers[k]

C10_SchemaViolationFatal ==
  (results # NoResult /\ ViolatesSchema(results)) =>
    /\ pc \in {"close", "done"}
    /\ error # NoError
    /\ searchResults = NoResult
    /\ calls.extract = 1
    /\ calls.close = 1
    /\ Finished => outcome = "threw"

\* a provider without name was extracted and the search threw
C10_Witness ==
  /\ Finished
  /\ "providers" \in DOMAIN results
  /\ Len(results.providers) = 1
  /\ "name" \notin DOMAIN results.providers[1]
  /\ outcome = "threw"
  /\ error = ZodError
  /\ calls.close = 1

(* C11: every planned action is in ActionHistory and has been forwarded to
   onAction before the first act call for it is started, so an action whose
   execution fails is still in ActionHistory. *)
Range(q) == {q[k] : k \in 1..Len(q)}
LastOf(q) == IF Len(q) = 0 THEN "" ELSE q[Len(q)]

ActCallStarts == calls'.act = calls.act + 1

C11_ActStep ==
  ActCallStarts =>
    /\ actArg' \in Range(actionHistory)
    /\ actArg' \in Range(sinkLog)
    /\ actArg' = LastOf(actionHistory)

ExecutionFailed ==
  pc = "screenshot" /\ startsWith(caught, "Failed to execute action: ")

C11_Recorded ==
  /\ pc \in ActingPcs =>
       /\ actArg = nextAction
       /\ actArg = LastOf(actionHistory)
       /\ actArg = LastOf(sinkLog)
  /\ ExecutionFailed => actArg \in Range(actionHistory)

C11_RecordedBeforeExecution == []C11_Recorded /\ [][C11_ActStep]_vars

\* three rejected act attempts, the action is still the history's entry
C11_Witness ==
  /\ ExecutionFailed
  /\ caught = "Failed to execute action: ACT: click Search: act failed"
  /\ actionHistory = <<"ACT: click Search">>
  /\ sinkLog = <<"ACT: click Search">>
  /\ calls.act = 3


(* C12: a failure of the diagnostic screenshot on the error-recovery path is
   ignored: when an iteration has failed with consecutiveErrors below 3 and
   page.screenshot settles, resolved or rejected, the search is not aborted
   and the next call is page.observe. *)
ScreenshotSettles == pc = "screenshot" /\ pc' # "screenshot"

C12_ScreenshotStep ==
  ScreenshotSettles =>
    /\ pc' = "observe"
    /\ calls'.observe = calls.observe + 1
    /\ calls'.close = calls.close
    /\ error' = NoError

C12_ScreenshotFailureIgnored == [][C12_ScreenshotStep]_vars

(* C13: a rejected config.onAction does not fail the planning attempt: when
   the sink call settles, getNextAction returns the planned action, no
   backoff or further generateObject call follows, actionHistory keeps its
   length and consecutiveErrors is unchanged. *)
SinkSettles == pc = "plan_sink" /\ pc' # "plan_sink"

C13_SinkStep ==
  SinkSettles =>
    /\ pc' \notin PlanningPcs
    /\ calls'.planReturned = calls.planReturned + 1
    /\ nextAction' = actionHistory[Len(actionHistory)]
    /\ actionHistory' = actionHistory
    /\ consecutiveErrors' = consecutiveErrors

C13_SinkFailureHarmless == [][C13_SinkStep]_vars


(* C14, as stated: when the planner has failed on all of its attempts the
   whole search fails: the step on which retryOperation gives up ends the
   loop with an error and no further observation is started. *)
PlannerExhausted == pc = "plan_backoff" /\ pc' \notin PlanningPcs

C14_FatalStep ==
  PlannerExhausted =>
    /\ pc' = "close"
    /\ error' # NoError
    /\ calls'.observe = calls.observe

C14_PlannerExhaustionFatal == [][C14_FatalStep]_vars

(* C14, amended: the planner gives up only after maxRetries failed attempts;
   its composite error is caught by the loop, which increments
   consecutiveErrors; the search fails, with 'Too many consecutive errors'
   and without another observation, only when the counter thereby reaches 3,
   and otherwise the loop goes on to the diagnostic screenshot. *)
C14_CountedStep ==
  PlannerExhausted =>
    /\ i + 1 = maxRetries
    /\ caught' = CompositeError(PlanLabel, lastError)
    /\ consecutiveErrors' = consecutiveErrors + 1
    /\ calls'.observe = calls.observe
    /\ IF consecutiveErrors' = maxConsecutiveErrors
         THEN /\ pc' = "close"
              /\ error' = TooManyErrors
              /\ calls'.close = calls.close + 1
         ELSE /\ pc' = "screenshot"
              /\ error' = NoError
              /\ calls'.close = calls.close

C14_PlannerExhaustionCounted == [][C14_CountedStep]_vars

C14_Witness ==
  /\ pc = "close"
  /\ caught = CompositeError(PlanLabel, NoObjectError)
  /\ error = TooManyErrors
  /\ consecutiveErrors = maxConsecutiveErrors
  /\ calls.plan = 1


(* C15: a failure of stagehand.init or of page.goto is fatal and not retried:
   the failing call is made once, the search throws its error (which only a
   rejecting close() in finally can replace), and no observe, planning, act
   or extract call is made in that search. *)
NoLoopCalls ==
  /\ calls.observe = 0
  /\ calls.plan = 0
  /\ calls.act = 0
  /\ calls.extract = 0

InitRejected == pc = "done" /\ calls.goto = 0
GotoRejected == pc \in {"close", "done"} /\ calls.goto = 1 /\ calls.observe = 0

C15_FailStep ==
  /\ (pc = "init" /\ fault') =>
       /\ pc' = "done"
       /\ outcome' = "threw"
       /\ error' = InitError
       /\ calls' = calls
  /\ (pc = "goto" /\ fault') =>
       /\ pc' = "close"
       /\ error' = GotoError
       /\ calls' = Inc(calls, {"close"})

C15_Fatal ==
  /\ calls.init <= 1
  /\ calls.goto <= 1
  /\ pc \in {"init", "goto"} => ~fault
  /\ InitRejected =>
       /\ calls.init = 1
       /\ outcome = "threw"
       /\ error = InitError
       /\ NoLoopCalls
  /\ GotoRejected =>
       /\ calls.init = 1
       /\ NoLoopCalls
       /\ pc = "close" => error = GotoError
       /\ pc = "done" => outcome = "threw" /\ error \in {GotoError, CloseError}

C15_InitFailureFatal == []C15_Fatal /\ [][C15_FailStep]_vars

C15_Witness ==
  /\ pc = "done"
  /\ GotoRejected
  /\ outcome = "threw"
  /\ error = GotoError
  /\ calls.close = 1


(* C16: when an iteration fails and consecutiveErrors is still below 3 after
   the increment, the search is not aborted: the loop invokes page.screenshot,
   the call after the screenshot is a new page.observe, and an observation
   that succeeds is followed by a new planning call. *)
IterationFails == consecutiveErrors' = consecutiveErrors + 1

C16_ContinueStep ==
  /\ (IterationFails /\ consecutiveErrors' < maxConsecutiveErrors) =>
       /\ pc' = "screenshot"
       /\ error' = NoError
       /\ calls'.close = calls.close
  /\ pc = "screenshot" =>
       /\ pc' \in {"screenshot", "observe"}
       /\ pc' = "observe" => calls'.observe = calls.observe + 1
       /\ calls'.close = calls.close
  /\ (pc = "observe" /\ pc' # "observe" /\ ~IterationFails) =>
       /\ pc' = "plan_llm"
       /\ calls'.plan = calls.plan + 1

C16_FailedIterationContinues == [][C16_ContinueStep]_vars


(* C17: a timeout or failure of an act attempt is followed by a re-attempt of
   the same instruction: while one planned action is being executed the
   planner is not called and actionHistory does not change, there are at
   most maxRetries attempts, and each one passes the same action string to
   page.act. *)
ActAttemptFailed == pc = "act_backoff"
ActRetried == ActAttemptFailed /\ pc' = "act_race"

C17_RetryStep ==
  /\ ActAttemptFailed => pc' \in {"act_backoff", "act_race", "screenshot", "close"}
  /\ ActRetried =>
       /\ actArg' = actArg
       /\ calls'.act = calls.act + 1
       /\ i' = i + 1
  /\ (pc \in ActingPcs /\ pc' \in ActingPcs) =>
       /\ actArg' = actArg
       /\ nextAction' = nextAction
       /\ actionHistory' = actionHistory
       /\ calls'.plan = calls.plan
       /\ calls'.exec = calls.exec

C17_Attempts ==
  pc \in ActingPcs =>
    /\ i + 1 <= maxRetries
    /\ actArg = nextAction
    /\ lastError \in {"undefined", ActError, ActionTimeoutError}

C17_SameInstructionRetried == []C17_Attempts /\ [][C17_RetryStep]_vars

C17_Witness ==
  /\ pc = "act_race"
  /\ i = 2
  /\ lastError = ActionTimeoutError
  /\ actArg = "ACT: click Search"
  /\ actionHistory = <<"ACT: click Search">>
  /\ calls.act = 3
  /\ calls.plan = 1


(* C18: in every iteration the calls happen in the order observe, plan, act,
   with no overlap between iterations (while an observation or a planning
   call runs, no page.act call of an earlier iteration is in flight), and
   the i-th notification handed to config.onAction carries the i-th
   actionHistory entry. *)
C18_CallOrder ==
  /\ calls.plan <= calls.observe
  /\ calls.planReturned <= calls.plan
  /\ calls.exec <= calls.planReturned

C18_OrderStep ==
  /\ calls'.observe > calls.observe => pc \in {"goto", "delay", "screenshot"}
  /\ calls'.plan > calls.plan => pc = "observe"
  /\ calls'.exec > calls.exec => pc = "plan_sink"
  /\ calls'.act > calls.act => pc \in {"plan_sink", "act_backoff"}

C18_NotificationOrder == sinkLog = actionHistory

C18_NoOverlap == pc \in {"observe"} \cup PlanningPcs => pendingActs = 0

C18_Ordered == C18_CallOrder /\ C18_NotificationOrder /\ C18_NoOverlap

C18_StrictOrder == []C18_Ordered /\ [][C18_OrderStep]_vars


(* C19: retryOperation waits between attempts with linear backoff: after the
   k-th failed attempt the wait is BackoffBase * k, a wait happens only when
   another attempt follows it, and a successful attempt is followed by no
   wait. *)
BackoffPcs == {"plan_backoff", "act_backoff"}
AttemptPcs == {"plan_llm", "plan_sink", "act_race"}

C19_Waiting ==
  pc \in BackoffPcs =>
    /\ lastError # "undefined"
    /\ timer = BackoffBase * (i + 1)
    /\ i + 1 < maxRetries

C19_WaitStep ==
  /\ (pc \in BackoffPcs /\ pc' \notin BackoffPcs) =>
       /\ pc' \in AttemptPcs
       /\ i' = i + 1
  /\ (pc \in AttemptPcs /\ pc' \in BackoffPcs) => lastError' # "undefined"

C19_LinearBackoff == []C19_Waiting /\ [][C19_WaitStep]_vars


(* C20: the loop has no ceiling on the number of iterations: the only ways
   out of it are a planned completion marker and the third consecutive
   failed iteration, so a search whose failed iterations never come three in
   a row is not aborted however many iterations it runs. *)
LoopPcs == {"observe", "delay", "screenshot"} \cup PlanningPcs \cup ActingPcs
LeavesLoop == pc \in LoopPcs /\ pc' \notin LoopPcs

C20_ExitStep ==
  LeavesLoop =>
    \/ /\ pc' = "extract"
       /\ nextAction' \in MarkerActions
       /\ error' = NoError
    \/ /\ pc' = "close"
       /\ consecutiveErrors' = maxConsecutiveErrors
       /\ error' = TooManyErrors

C20_InLoop ==
  /\ pc \in LoopPcs => consecutiveErrors < maxConsecutiveErrors /\ error = NoError
  /\ (pc \in {"close", "done"} /\ calls.observe > 0 /\ calls.extract = 0) =>
       consecutiveErrors = maxConsecutiveErrors

C20_NoIterationCeiling == []C20_InLoop /\ [][C20_ExitStep]_vars


(* C21: page.extract is invoked at most once in a search, and only by the
   step on which a planning call returns an action carrying a completion
   marker; it is never invoked by the loop's catch, and while it runs no
   iteration is in progress. *)
ExtractStarts == calls'.extract > calls.extract

C21_ExtractStep ==
  ExtractStarts =>
    /\ PlanningReturns
    /\ nextAction' \in MarkerActions
    /\ nextAction' = LastOf(actionHistory)
    /\ calls.extract = 0
    /\ calls'.extract = 1
    /\ pc' = "extract"
    /\ consecutiveErrors' = consecutiveErrors
    /\ error' = NoError

C21_Extracting ==
  /\ calls.extract <= 1
  /\ pc = "extract" <=> (calls.extract = 1 /\ results = NoResult /\ error = NoError)
  /\ calls.extract = 1 =>
       /\ pc \in {"extract", "close", "done"}
       /\ nextAction \in MarkerActions
       /\ consecutiveErrors < maxConsecutiveErrors

C21_ExtractOnlyAfterMarker == []C21_Extracting /\ [][C21_ExtractStep]_vars

C21_Witness ==
  /\ pc = "extract"
  /\ calls.extract = 1
  /\ nextAction = "EXTRACT: Search FINISHED"
  /\ consecutiveErrors = 1
  /\ calls.observe = 2
  /\ calls.exec = 0


(* C22: when stagehand.close is invoked, and for as long as the teardown
   runs, no page.act call started by executeAction is still in flight,
   whichever exit path led to the teardown. *)
CloseStarts == calls'.close > calls.close

C22_Quiescent == pc = "close" => pendingActs = 0

C22_CloseStep == CloseStarts => pendingActs' = 0

C22_NoActInFlightAtClose == []C22_Quiescent /\ [][C22_CloseStep]_vars


(* C23: in a search whose only failures are page.act attempts, where every
   act attempt fails and no planned action carries a completion marker, the
   search aborts after exactly 3 iterations: 3 observations, 3 planning
   calls, 9 act attempts, and actionHistory then has exactly 3 entries. *)
OnlyActsFail ==
  /\ ~otherFault
  /\ ~actResolved
  /\ Range(actionHistory) \cap MarkerActions = {}

SearchEnded == pc \in {"close", "done"}

C23_AllActsFail ==
  /\ (OnlyActsFail /\ SearchEnded) =>
       /\ consecutiveErrors = maxConsecutiveErrors
       /\ error = TooManyErrors
       /\ calls.observe = 3
       /\ calls.plan = 3
       /\ calls.planReturned = 3
       /\ calls.exec = 3
       /\ calls.act = 9
       /\ Len(actionHistory) = 3
       /\ calls.extract = 0
       /\ pc = "done" => outcome = "threw"
  /\ (OnlyActsFail /\ pc \in LoopPcs) =>
       /\ calls.observe <= maxConsecutiveErrors
       /\ calls.act <= maxRetries * calls.exec
       /\ Len(actionHistory) = calls.plan - (IF pc = "plan_llm" THEN 1 ELSE 0)

C23_Witness ==
  /\ pc = "done"
  /\ OnlyActsFail
  /\ outcome = "threw"
  /\ error = TooManyErrors
  /\ calls.act = 9
  /\ timeouts = 1
  /\ Len(actionHistory) = 3


(* C24: on the event stream of a request that started streaming, the
   'Starting provider search...' message comes first, then the action events
   in the order the actions were planned, then exactly one terminal event
   (complete when executeSearch returned, error when the search threw, never
   both), and writer.close is invoked exactly once, after the terminal write,
   whether the search succeeds or fails; "exactly one" is what the stream
   shows when its writes resolve, "at most one, and last" holds always. *)
TerminalEvents == {CompleteEvent, ErrorEvent}
TerminalAt == {k \in 1..Len(stream) : stream[k] \in TerminalEvents}
StartAt == {k \in 1..Len(stream) : stream[k] = StartMessage}
ExpectedTerminal == IF outcome = "returned" THEN CompleteEvent ELSE ErrorEvent

C24_Stream ==
  /\ StartAt \subseteq {1}
  /\ TerminalAt \subseteq {Len(stream)}
  /\ (route = "start_write") = (stream = <<>> /\ ~writeFault)
  /\ pc \notin {"idle", "done"} => (route = "searching" /\ StartAt = {1})
  /\ TerminalAt # {} => route \in {"writer_close", "closed"}
  /\ (route \in {"writer_close", "closed"} /\ ~writeFault) =>
       /\ StartAt = {1}
       /\ TerminalAt = {Len(stream)}
       /\ LastOf(stream) = ExpectedTerminal
       /\ SubSeq(stream, 2, Len(stream) - 1) = sinkLog
       /\ sinkLog = actionHistory
       /\ outcome = "returned" => searchResults # NoResult

C24_RouteStep ==
  /\ (route' = "writer_close" /\ route # "writer_close") =>
       route \in {"complete_write", "error_write"}
  /\ route = "writer_close" => route' \in {"writer_close", "closed"}
  /\ route = "closed" => (route' = "closed" /\ stream' = stream)
  /\ route = "complete_write" =>
       (outcome = "returned" /\ route' \in {"complete_write", "writer_close", "error_write"})
  /\ (route = "complete_write" /\ route' = "error_write") => stream' = stream
  /\ (route # "searching" /\ route' = "searching") => LastOf(stream') = StartMessage

C24_StreamOrder == []C24_Stream /\ [][C24_RouteStep]_vars

C24_Witness ==
  /\ route = "closed"
  /\ ~writeFault
  /\ outcome = "returned"
  /\ stream = <<StartMessage, "ACT: click Search", "EXTRACT: Search FINISHED",
                CompleteEvent>>


(* C25: whenever the server reported a failed search to the client, as an
   error event on the event stream or as a JSON error response, and
   handleSearch has read the whole response, the handler ends with the error
   state set and with isLoading cleared. *)
FailureReported ==
  /\ response # NoResponse
  /\ delivered = Len(response.wire)
  /\ \E k \in 1..Len(response.wire) : Has(response.wire[k].data, "error")

C25_FailureShown ==
  (cpc = "ended" /\ FailureReported) => (uiError # "null" /\ ~isLoading)

====
